---------------------------- MODULE Spec2Model ----------------------------
(* PFHub benchmark 1a (spinodal decomposition), src/src/PFHub.hpp:          *)
(* PFHub1aBase with its three variants PFHub1aBenchmark, PFHub1aCustom and  *)
(* PFHub1aCHiMaD2023.                                                       *)
(*                                                                          *)
(* Numbers.  A double is modelled by an exact rational <<n, d>> in lowest   *)
(* terms (d > 0), a Kokkos::complex<double> by a record [re, im] of two     *)
(* rationals.  Angles handed to Kokkos::cos / Kokkos::sin by the periodic   *)
(* variants are rational multiples of M_PI and are kept in units of M_PI,   *)
(* so that the trigonometric values are exact where they are rational.      *)
(* The one place where M_PI enters a stored number is the square of the     *)
(* wavenumber; there M_PI * M_PI is the rational PiSq.                      *)
EXTENDS Integers, Sequences, FiniteSets, TLC

VARIABLES
    variant,      \* the concrete class of the object
    grid_points,  \* PFHub1aBase::grid_points
    dt,           \* the time increment handed to CabanaPFRunner
    N,            \* PFHub1aCustom::N1 .. N10
    laplacian,    \* PFHub1aBase::laplacian_view
    c,            \* vars, field 0
    df_dc,        \* vars, field 1
    pc,           \* "constructed", "ready" (between calls) or "step" (inside step)
    pos,          \* inside step: index into StepOrder of the next statement
    steps,        \* number of calls of step that have returned
    space,        \* per field: forward transforms applied and not undone
    stamp,        \* per field: value of steps when a kernel last wrote it
    out           \* what the last call returned or saved

vars == <<variant, grid_points, dt, N, laplacian, c, df_dc,
          pc, pos, steps, space, stamp, out>>

-----------------------------------------------------------------------------
(* Bounds of the model *)

\* grid sizes 1..MaxGrid are constructed
MaxGrid == 4

\* at most MaxSteps calls of step per run
MaxSteps == 2

-----------------------------------------------------------------------------
(* double arithmetic, exact.  Operands are passed by value: an operation    *)
(* binds its operands (x \in {x0}) before it computes with them.            *)

Abs(x) == IF x < 0 THEN -x ELSE x

RECURSIVE Gcd(_, _)
Gcd(a, b) == IF b = 0 THEN a ELSE Gcd(b, a % b)

\* the rational n / d in lowest terms, d # 0
Rat(n0, d0) ==
    CHOOSE r \in { LET s == IF d < 0 THEN -1 ELSE 1
                       g == Gcd(Abs(n), Abs(d))
                   IN  <<(s * n) \div g, (s * d) \div g>> : n \in {n0}, d \in {d0} } : TRUE

RInt(n) == <<n, 1>>

RNeg(x) == <<-x[1], x[2]>>

RAdd(x0, y0) ==
    CHOOSE r \in { LET g == Gcd(x[2], y[2])
                   IN  Rat(x[1] * (y[2] \div g) + y[1] * (x[2] \div g),
                           (x[2] \div g) * y[2]) : x \in {x0}, y \in {y0} } : TRUE

RSub(x, y) == RAdd(x, RNeg(y))

RMul(x0, y0) ==
    CHOOSE r \in { LET g1 == Gcd(Abs(x[1]), y[2])
                       g2 == Gcd(Abs(y[1]), x[2])
                   IN  Rat((x[1] \div g1) * (y[1] \div g2),
                           (x[2] \div g2) * (y[2] \div g1)) : x \in {x0}, y \in {y0} } : TRUE

RDiv(x, y) == RMul(x, Rat(y[2], y[1]))

RLeq(x, y) == RSub(x, y)[1] <= 0

\* floor of a rational
RFloor(x) == x[1] \div x[2]

(* Kokkos::complex<double> *)

Cx(re, im) == [re |-> re, im |-> im]

CZero == Cx(RInt(0), RInt(0))

CAdd(a0, b0) ==
    CHOOSE r \in { Cx(RAdd(a.re, b.re), RAdd(a.im, b.im)) : a \in {a0}, b \in {b0} } : TRUE

CSub(a0, b0) ==
    CHOOSE r \in { Cx(RSub(a.re, b.re), RSub(a.im, b.im)) : a \in {a0}, b \in {b0} } : TRUE

CMul(a0, b0) ==
    CHOOSE r \in { Cx(RSub(RMul(a.re, b.re), RMul(a.im, b.im)),
                      RAdd(RMul(a.re, b.im), RMul(a.im, b.re))) : a \in {a0}, b \in {b0} } : TRUE

\* complex * double and double * complex
CTimesR(a0, r0) ==
    CHOOSE v \in { Cx(RMul(a.re, r), RMul(a.im, r)) : a \in {a0}, r \in {r0} } : TRUE

\* complex / double
CDivR(a0, r0) ==
    CHOOSE v \in { Cx(RDiv(a.re, r), RDiv(a.im, r)) : a \in {a0}, r \in {r0} } : TRUE

\* complex - double, double - complex, double + complex
CMinusR(a0, r0) ==
    CHOOSE v \in { Cx(RSub(a.re, r), a.im) : a \in {a0}, r \in {r0} } : TRUE

RMinusC(r0, a0) ==
    CHOOSE v \in { Cx(RSub(r, a.re), RNeg(a.im)) : a \in {a0}, r \in {r0} } : TRUE

RPlusC(r0, a0) ==
    CHOOSE v \in { Cx(RAdd(r, a.re), a.im) : a \in {a0}, r \in {r0} } : TRUE

CDiv(a0, b0) ==
    CHOOSE v \in { LET m == RAdd(RMul(b.re, b.re), RMul(b.im, b.im))
                   IN  Cx(RDiv(RAdd(RMul(a.re, b.re), RMul(a.im, b.im)), m),
                          RDiv(RSub(RMul(a.im, b.re), RMul(a.re, b.im)), m))
                   : a \in {a0}, b \in {b0} } : TRUE

-----------------------------------------------------------------------------
(* Kokkos::cos and Kokkos::sin.  The argument a is in units of M_PI.  The   *)
(* values are exact where they are rational: at the multiples of M_PI/2,    *)
(* and for cos at the multiples of M_PI/3.                                  *)

IsInt(x) == x[2] = 1

CosExact(a) == IsInt(RMul(RInt(2), a)) \/ IsInt(RMul(RInt(3), a))

SinExact(a) == IsInt(RMul(RInt(2), a))

\* a / (M_PI/2) modulo 4 and a / (M_PI/3) modulo 6, for a an exact multiple
Quarter(a) == ((2 * a[1]) \div a[2]) % 4

Sixth(a) == ((3 * a[1]) \div a[2]) % 6

Cos(a) ==
    IF IsInt(RMul(RInt(2), a))
    THEN CASE Quarter(a) = 0 -> RInt(1)
           [] Quarter(a) = 1 -> RInt(0)
           [] Quarter(a) = 2 -> RInt(-1)
           [] Quarter(a) = 3 -> RInt(0)
    ELSE CASE Sixth(a) = 1 -> Rat(1, 2)
           [] Sixth(a) = 2 -> Rat(-1, 2)
           [] Sixth(a) = 4 -> Rat(-1, 2)
           [] Sixth(a) = 5 -> Rat(1, 2)

Sin(a) ==
    CASE Quarter(a) = 0 -> RInt(0)
      [] Quarter(a) = 1 -> RInt(1)
      [] Quarter(a) = 2 -> RInt(0)
      [] Quarter(a) = 3 -> RInt(-1)

\* the benchmark variant's arguments are in radians; only cos(0) is rational
CosRad(r) == CASE r = RInt(0) -> RInt(1)

-----------------------------------------------------------------------------
(* Model constants, PFHub1aBase *)

SIZE == 200
KAPPA == 2
M == 5
RHO == 5
C_ALPHA == Rat(3, 10)
C_BETA == Rat(7, 10)

\* M_PI * M_PI
PiSq == 10

Nodes(points) == (0 .. points - 1) \X (0 .. points - 1)

cell_size(points) == Rat(SIZE, points)

-----------------------------------------------------------------------------
(* Spectral operator, PFHub1aBase::initialize *)

\* Wavenumber without the Nyquist case
Wavenumber_NoNyquist(k, points) ==
    IF k > points \div 2 THEN k - points ELSE k

\* the integer that multiplies 2 * M_PI / points
Wavenumber(k, points) ==
    IF k > points \div 2 THEN k - points
    ELSE IF 2 * k = points THEN 0
    ELSE k

\* WaveVector with the factor 2 * M_PI / points real instead of imaginary
WaveVector_Real(k, points) ==
    CTimesR(Cx(Rat(2, points), RInt(0)), RInt(Wavenumber(k, points)))

\* cdouble(0.0, 2 * M_PI / points) * static_cast<double>(...), in units of M_PI
WaveVector(k, points) ==
    CTimesR(Cx(RInt(0), Rat(2, points)), RInt(Wavenumber(k, points)))

\* k * k of a wave vector held in units of M_PI
Square(k) == CTimesR(CMul(k, k), RInt(PiSq))

LaplacianKernel(i, j, points) ==
    LET kx == WaveVector(i, points)
        ky == WaveVector(j, points)
    IN  CDivR(CTimesR(CAdd(Square(kx), Square(ky)), RInt(points * points)),
              RInt(SIZE * SIZE))

LaplacianField(points) ==
    [p \in Nodes(points) |-> LaplacianKernel(p[1], p[2], points)]

-----------------------------------------------------------------------------
(* Initial conditions of the three variants *)

Coef(n1, n2, n3, n4, n5, n6, n7, n8, n9, n10) ==
    [N1 |-> n1, N2 |-> n2, N3 |-> n3, N4 |-> n4, N5 |-> n5,
     N6 |-> n6, N7 |-> n7, N8 |-> n8, N9 |-> n9, N10 |-> n10]

\* k * M_PI * v / d, in units of M_PI
Arg(k, v, d) == RDiv(RMul(RInt(k), v), RInt(d))

\* the arguments of the six cosines and two sines of PFHub1aCustom
CustomArgs(x, y, n) ==
    [a1 |-> Arg(n.N1, x, 100),
     a2 |-> Arg(n.N2, y, 100),
     a3 |-> Arg(n.N3, x, 200),
     a4 |-> Arg(n.N4, y, 200),
     a5 |-> RSub(Arg(n.N5, x, 100), Arg(n.N6, y, 100)),
     a6 |-> RSub(Arg(n.N7, x, 100), Arg(n.N8, y, 100)),
     s1 |-> Arg(n.N9, x, 100),
     s2 |-> Arg(n.N10, y, 100)]

\* CustomKernel with cosines in place of the two sines
CustomKernel_CosForSin(i, j, points, n) ==
    LET delta == cell_size(points)
        x == RMul(delta, RInt(i))
        y == RMul(delta, RInt(j))
        a == CustomArgs(x, y, n)
        t1 == RMul(Cos(a.a1), Cos(a.a2))
        t2 == RMul(RMul(RMul(Cos(a.a3), Cos(a.a3)), Cos(a.a4)), Cos(a.a4))
        t3 == RMul(Cos(a.a5), Cos(a.a6))
        sum == RAdd(RAdd(RAdd(RAdd(t1, t2), t3), Cos(a.s1)), Cos(a.s2))
    IN  Cx(RAdd(Rat(1, 2), RMul(Rat(1, 100), sum)), RInt(0))

CustomKernel(i, j, points, n) ==
    LET delta == cell_size(points)
        x == RMul(delta, RInt(i))
        y == RMul(delta, RInt(j))
        a == CustomArgs(x, y, n)
        t1 == RMul(Cos(a.a1), Cos(a.a2))
        t2 == RMul(RMul(RMul(Cos(a.a3), Cos(a.a3)), Cos(a.a4)), Cos(a.a4))
        t3 == RMul(Cos(a.a5), Cos(a.a6))
        sum == RAdd(RAdd(RAdd(RAdd(t1, t2), t3), Sin(a.s1)), Sin(a.s2))
    IN  Cx(RAdd(Rat(1, 2), RMul(Rat(1, 100), sum)), RInt(0))

\* CHiMaD2023Args with M_PI * y / 20 for M_PI * y / 25
CHiMaD2023Args_Y20(x, y) ==
    [a1 |-> Arg(3, x, 100),
     a2 |-> Arg(1, y, 20),
     a3 |-> Arg(1, x, 25),
     a4 |-> Arg(3, y, 100),
     a5 |-> RSub(Arg(1, x, 100), Arg(1, y, 20)),
     a6 |-> RSub(Arg(1, x, 50), Arg(1, y, 100))]

\* the arguments of the six cosines of PFHub1aCHiMaD2023
CHiMaD2023Args(x, y) ==
    [a1 |-> Arg(3, x, 100),
     a2 |-> Arg(1, y, 25),
     a3 |-> Arg(1, x, 25),
     a4 |-> Arg(3, y, 100),
     a5 |-> RSub(Arg(1, x, 100), Arg(1, y, 20)),
     a6 |-> RSub(Arg(1, x, 50), Arg(1, y, 100))]

CHiMaD2023Kernel(i, j, points) ==
    LET delta == cell_size(points)
        x == RMul(delta, RInt(i))
        y == RMul(delta, RInt(j))
        a == CHiMaD2023Args(x, y)
        t1 == RMul(Cos(a.a1), Cos(a.a2))
        t2 == RMul(RMul(RMul(Cos(a.a3), Cos(a.a4)), Cos(a.a3)), Cos(a.a4))
        t3 == RMul(Cos(a.a5), Cos(a.a6))
        sum == RAdd(RAdd(t1, t2), t3)
    IN  Cx(RAdd(Rat(1, 2), RMul(Rat(1, 100), sum)), RInt(0))

\* the arguments (radians) of the six cosines of PFHub1aBenchmark
BenchmarkArgs(x, y) ==
    [a1 |-> RMul(Rat(105, 1000), x),
     a2 |-> RMul(Rat(11, 100), y),
     a3 |-> RMul(Rat(13, 100), x),
     a4 |-> RMul(Rat(87, 1000), y),
     a5 |-> RSub(RMul(Rat(25, 1000), x), RMul(Rat(15, 100), y)),
     a6 |-> RSub(RMul(Rat(7, 100), x), RMul(Rat(2, 100), y))]

BenchmarkKernel(i, j, points) ==
    LET delta == cell_size(points)
        x == RMul(delta, RInt(i))
        y == RMul(delta, RInt(j))
        a == BenchmarkArgs(x, y)
        t1 == RMul(CosRad(a.a1), CosRad(a.a2))
        t2 == RMul(RMul(RMul(CosRad(a.a3), CosRad(a.a4)), CosRad(a.a3)),
                   CosRad(a.a4))
        t3 == RMul(CosRad(a.a5), CosRad(a.a6))
        sum == RAdd(RAdd(t1, t2), t3)
    IN  Cx(RAdd(Rat(1, 2), RMul(Rat(1, 100), sum)), RInt(0))

\* virtual void initial_conditions(): the field written into c
initial_conditions(v, points, n) ==
    CASE v = "PFHub1aBenchmark" ->
           [p \in Nodes(points) |-> BenchmarkKernel(p[1], p[2], points)]
      [] v = "PFHub1aCustom" ->
           [p \in Nodes(points) |-> CustomKernel(p[1], p[2], points, n)]
      [] v = "PFHub1aCHiMaD2023" ->
           [p \in Nodes(points) |-> CHiMaD2023Kernel(p[1], p[2], points)]

-----------------------------------------------------------------------------
(* Chemical potential, PFHub1aBase::calc_dfdc *)

\* DfdcKernel with 2 (c - C_ALPHA)^2 as its first product
DfdcKernel_FirstProduct(cv) ==
    LET a == CMinusR(cv, C_ALPHA)
        b == RMinusC(C_BETA, cv)
    IN  CTimesR(CSub(CMul(CTimesR(a, RInt(2)), a),
                     CMul(CMul(CTimesR(b, RInt(2)), a), a)),
                RInt(RHO))

DfdcKernel(cv) ==
    LET a == CMinusR(cv, C_ALPHA)
        b == RMinusC(C_BETA, cv)
    IN  CTimesR(CSub(CMul(CMul(CTimesR(a, RInt(2)), b), b),
                     CMul(CMul(CTimesR(b, RInt(2)), a), a)),
                RInt(RHO))

-----------------------------------------------------------------------------
(* Semi-implicit Euler in Fourier space, the "timestep" kernel of step *)

Denominator(t, lap) ==
    RPlusC(RInt(1), CMul(CTimesR(lap, RMul(RMul(t, RInt(M)), RInt(KAPPA))), lap))

\* TimestepKernel adding dt * M * df_dc_hat, the operator left out
TimestepKernel_NoOperator(c_hat, df_dc_hat, lap, t) ==
    CDiv(CAdd(c_hat, CTimesR(df_dc_hat, RMul(t, RInt(M)))),
         Denominator(t, lap))

\* TimestepKernel adding M * laplacian * df_dc_hat, dt left out
TimestepKernel_NoDt(c_hat, df_dc_hat, lap, t) ==
    CDiv(CAdd(c_hat, CMul(CTimesR(lap, RInt(M)), df_dc_hat)),
         Denominator(t, lap))

TimestepKernel(c_hat, df_dc_hat, lap, t) ==
    CDiv(CAdd(c_hat, CMul(CTimesR(lap, RMul(t, RInt(M))), df_dc_hat)),
         Denominator(t, lap))

-----------------------------------------------------------------------------
(* The field container's transforms, PFVariables::fft_forward and           *)
(* PFVariables::fft_inverse: the two-dimensional discrete Fourier transform *)
(* of a field in place, unscaled forward and scaled by 1/points^2 back.     *)
(* The twiddle factors are exact for the sizes 1, 2 and 4.                  *)

ExactTransform(points) == points \in {1, 2, 4}

\* exp(-2 * M_PI * i * m / points)
Twiddle(m, points) ==
    CASE (m * (4 \div points)) % 4 = 0 -> Cx(RInt(1), RInt(0))
      [] (m * (4 \div points)) % 4 = 1 -> Cx(RInt(0), RInt(-1))
      [] (m * (4 \div points)) % 4 = 2 -> Cx(RInt(-1), RInt(0))
      [] (m * (4 \div points)) % 4 = 3 -> Cx(RInt(0), RInt(1))

\* one-dimensional transform along an axis: the sum over m of g[m] times the
\* twiddle factor of sign * k * m
RECURSIVE AxisSum(_, _, _, _, _)
AxisSum(g, k, points, sign, m) ==
    IF m = points THEN CZero
    ELSE CAdd(CMul(g[m], Twiddle(sign * k * m, points)),
              AxisSum(g, k, points, sign, m + 1))

Transform(f, points, sign) ==
    LET rows == [k \in Nodes(points) |->
                    AxisSum([m \in 0 .. points - 1 |-> f[<<m, k[2]>>]],
                            k[1], points, sign, 0)]
    IN  [k \in Nodes(points) |->
            AxisSum([m \in 0 .. points - 1 |-> rows[<<k[1], m>>]],
                    k[2], points, sign, 0)]

fft_forward(f, points) == Transform(f, points, 1)

fft_inverse(f, points) ==
    LET g == Transform(f, points, -1)
    IN  [k \in Nodes(points) |-> CDivR(g[k], RInt(points * points))]

-----------------------------------------------------------------------------
(* Identity strings and the label of the saved field.  A string is the      *)
(* sequence of its characters.                                              *)

Digit(d) == <<"0", "1", "2", "3", "4", "5", "6", "7", "8", "9">>[d + 1]

RECURSIVE Natural(_)
Natural(n) == IF n < 10 THEN <<Digit(n)>> ELSE Natural(n \div 10) \o <<Digit(n % 10)>>

\* operator<<(int)
Decimal(n) == IF n < 0 THEN <<"-">> \o Natural(-n) ELSE Natural(n)

Pow10(e) == IF e >= 0 THEN RInt(10 ^ e) ELSE Rat(1, 10 ^ (-e))

\* operator<<(double) under std::scientific with precision 3
Scientific(r) ==
    IF r[1] = 0 THEN <<"0", ".", "0", "0", "0", "e", "+", "0", "0">>
    ELSE LET a == <<Abs(r[1]), r[2]>>
             e0 == CHOOSE e \in -4 .. 5 :
                      RLeq(Pow10(e), a) /\ ~RLeq(Pow10(e + 1), a)
             q == RMul(RDiv(a, Pow10(e0)), RInt(1000))
             fl == RFloor(q)
             fr == RSub(q, RInt(fl))
             up == \/ ~RLeq(fr, Rat(1, 2))
                   \/ fr = Rat(1, 2) /\ fl % 2 = 1
             m0 == IF up THEN fl + 1 ELSE fl
             m == IF m0 = 10000 THEN 1000 ELSE m0
             e == IF m0 = 10000 THEN e0 + 1 ELSE e0
             ds == Natural(m)
             es == Natural(Abs(e))
         IN  (IF r[1] < 0 THEN <<"-">> ELSE <<>>)
             \o <<ds[1], ".", ds[2], ds[3], ds[4], "e">>
             \o <<IF e < 0 THEN "-" ELSE "+">>
             \o (IF Len(es) = 1 THEN <<"0">> \o es ELSE es)

subproblem_name(v, n) ==
    CASE v = "PFHub1aBenchmark" ->
           <<"1", "a", "B", "e", "n", "c", "h", "m", "a", "r", "k">>
      [] v = "PFHub1aCustom" ->
           <<"1", "a", "C", "u", "s", "t", "o", "m", "_">>
           \o Decimal(n.N1) \o <<"_">> \o Decimal(n.N2) \o <<"_">>
           \o Decimal(n.N3) \o <<"_">> \o Decimal(n.N5) \o <<"_">>
           \o Decimal(n.N6) \o <<"_">> \o Decimal(n.N7) \o <<"_">>
           \o Decimal(n.N8) \o <<"_">> \o Decimal(n.N9) \o <<"_">>
           \o Decimal(n.N10)
      [] v = "PFHub1aCHiMaD2023" ->
           <<"1", "a", "C", "H", "i", "M", "a", "D", "2", "0", "2", "3">>

\* the label output_c hands to save
OutputLabel(v, n, points, t) ==
    subproblem_name(v, n) \o <<"_", "N">> \o Decimal(points)
    \o <<"_", "D", "T">> \o Scientific(t)

-----------------------------------------------------------------------------
(* Instances that are constructed *)

Variants == {"PFHub1aBenchmark", "PFHub1aCustom", "PFHub1aCHiMaD2023"}

\* PFHub1aCHiMaD2023's constructor arguments to PFHub1aCustom
Preset == Coef(3, 4, 8, 6, 1, 5, 2, 1, 0, 0)

\* PFHub1aBenchmark has no coefficients
NoCoef == <<>>

CustomCoefs ==
    { Coef(0, 0, 0, 0, 0, 0, 0, 0, 0, 0),
      Coef(1, 0, 0, 0, 0, 0, 0, 0, 0, 0),
      Coef(1, 0, 0, 4, 0, 0, 0, 0, 0, 0),
      Coef(0, 1, 2, 0, 1, 1, 1, 0, 1, 1),
      Preset }

\* dt is any double: a negative one, zero and a positive one.  With these
\* the denominator 1 + dt * M * KAPPA * L * L is 1/2, -1, 1, 2 or 5, so that
\* the quotient of the update stays a short decimal fraction.
DtSet == { RInt(-50000), RInt(0), RInt(100000) }

\* every cosine and sine of the variant's kernel has a rational value
ExactField(v, points, n) ==
    \A p \in Nodes(points) :
        LET x == RMul(cell_size(points), RInt(p[1]))
            y == RMul(cell_size(points), RInt(p[2]))
        IN  CASE v = "PFHub1aBenchmark" -> x = RInt(0) /\ y = RInt(0)
              [] v = "PFHub1aCustom" ->
                   LET a == CustomArgs(x, y, n)
                   IN  /\ \A t \in {a.a1, a.a2, a.a3, a.a4, a.a5, a.a6} : CosExact(t)
                       /\ SinExact(a.s1) /\ SinExact(a.s2)
              [] v = "PFHub1aCHiMaD2023" ->
                   LET a == CHiMaD2023Args(x, y)
                   IN  \A t \in {a.a1, a.a2, a.a3, a.a4, a.a5, a.a6} : CosExact(t)

Instances ==
    { inst \in [variant : Variants, grid_points : 1 .. MaxGrid, dt : DtSet,
                N : CustomCoefs \cup {NoCoef}] :
        /\ inst.variant = "PFHub1aBenchmark" => inst.N = NoCoef
        /\ inst.variant = "PFHub1aCustom" => inst.N \in CustomCoefs
        /\ inst.variant = "PFHub1aCHiMaD2023" => inst.N = Preset
        /\ ExactField(inst.variant, inst.grid_points, inst.N) }

ZeroField(points) == [p \in Nodes(points) |-> CZero]

NoOutput == [op |-> "none"]

-----------------------------------------------------------------------------
(* State machine *)

\* StepOrder with calc_dfdc after the forward transform of c
StepOrder_CalcLate ==
    <<"fft_forward_c", "calc_dfdc", "fft_forward_df_dc", "timestep", "fft_inverse_c">>

\* the statements of PFHub1aBase::step, in order
StepOrder ==
    <<"calc_dfdc", "fft_forward_c", "fft_forward_df_dc", "timestep", "fft_inverse_c">>

\* field indices of vars{layout, {"c", "df_dc"}}
Fields == {0, 1}

Init ==
    \E inst \in Instances :
        /\ variant = inst.variant
        /\ grid_points = inst.grid_points
        /\ dt = inst.dt
        /\ N = inst.N
        /\ laplacian = ZeroField(inst.grid_points)
        /\ c = ZeroField(inst.grid_points)
        /\ df_dc = ZeroField(inst.grid_points)
        /\ pc = "constructed"
        /\ pos = 1
        /\ steps = 0
        /\ space = [f \in Fields |-> 0]
        /\ stamp = [f \in Fields |-> -1]
        /\ out = NoOutput

initialize ==
    /\ pc \in {"constructed", "ready"}
    /\ laplacian' = LaplacianField(grid_points)
    /\ c' = initial_conditions(variant, grid_points, N)
    /\ pc' = "ready"
    /\ space' = [space EXCEPT ![0] = 0]
    /\ stamp' = [stamp EXCEPT ![0] = steps]
    /\ out' = NoOutput
    /\ UNCHANGED <<variant, grid_points, dt, N, df_dc, pos, steps>>

\* every component of the field is a multiple of 0.01 in [-1, 1], as the
\* fields written by initial_conditions are: the cubes calc_dfdc takes of
\* such a field, and their transforms, fit the integers of the model
Hundredths(f) ==
    \A p \in DOMAIN f :
        /\ 100 % f[p].re[2] = 0 /\ Abs(f[p].re[1]) <= f[p].re[2]
        /\ 100 % f[p].im[2] = 0 /\ Abs(f[p].im[1]) <= f[p].im[2]

\* index into StepOrder of the statement to run next
Index == IF pc = "ready" THEN 1 ELSE pos

\* control is at statement s of step: at its start when a call begins.  A
\* call begins on a grid the transform is exact for and on a field of
\* hundredths; once begun it runs to its return.
At(s) ==
    /\ \/ /\ pc = "ready"
          /\ steps < MaxSteps
          /\ ExactTransform(grid_points)
          /\ Hundredths(c)
       \/ pc = "step"
    /\ StepOrder[Index] = s

\* control moves to the next statement, or the call returns
Advance ==
    IF Index = Len(StepOrder)
    THEN pc' = "ready" /\ pos' = 1 /\ steps' = steps + 1
    ELSE pc' = "step" /\ pos' = Index + 1 /\ steps' = steps

calc_dfdc ==
    /\ At("calc_dfdc")
    /\ df_dc' = [p \in Nodes(grid_points) |-> DfdcKernel(c[p])]
    /\ space' = [space EXCEPT ![1] = space[0]]
    /\ stamp' = [stamp EXCEPT ![1] = steps]
    /\ Advance
    /\ out' = NoOutput
    /\ UNCHANGED <<variant, grid_points, dt, N, laplacian, c>>

fft_forward_c ==
    /\ At("fft_forward_c")
    /\ c' = fft_forward(c, grid_points)
    /\ space' = [space EXCEPT ![0] = space[0] + 1]
    /\ Advance
    /\ out' = NoOutput
    /\ UNCHANGED <<variant, grid_points, dt, N, laplacian, df_dc, stamp>>

fft_forward_df_dc ==
    /\ At("fft_forward_df_dc")
    /\ df_dc' = fft_forward(df_dc, grid_points)
    /\ space' = [space EXCEPT ![1] = space[1] + 1]
    /\ Advance
    /\ out' = NoOutput
    /\ UNCHANGED <<variant, grid_points, dt, N, laplacian, c, stamp>>

\* timestep writing its result into laplacian as well
timestep_WritesOperator ==
    /\ At("timestep")
    /\ c' = [p \in Nodes(grid_points) |->
                TimestepKernel(c[p], df_dc[p], laplacian[p], dt)]
    /\ laplacian' = c'
    /\ Advance
    /\ out' = NoOutput
    /\ UNCHANGED <<variant, grid_points, dt, N, df_dc, space, stamp>>

timestep ==
    /\ At("timestep")
    /\ c' = [p \in Nodes(grid_points) |->
                TimestepKernel(c[p], df_dc[p], laplacian[p], dt)]
    /\ Advance
    /\ out' = NoOutput
    /\ UNCHANGED <<variant, grid_points, dt, N, laplacian, df_dc, space, stamp>>

fft_inverse_c ==
    /\ At("fft_inverse_c")
    /\ c' = fft_inverse(c, grid_points)
    /\ space' = [space EXCEPT ![0] = space[0] - 1]
    /\ Advance
    /\ out' = NoOutput
    /\ UNCHANGED <<variant, grid_points, dt, N, laplacian, df_dc, stamp>>

step ==
    \/ calc_dfdc
    \/ fft_forward_c
    \/ fft_forward_df_dc
    \/ timestep
    \/ fft_inverse_c

get_c ==
    /\ pc = "ready"
    /\ \E p \in Nodes(grid_points) :
          out' = [op |-> "get_c", value |-> c[p].re]
    /\ UNCHANGED <<variant, grid_points, dt, N, laplacian, c, df_dc,
                   pc, pos, steps, space, stamp>>

output_c ==
    /\ pc = "ready"
    /\ out' = [op |-> "output_c",
               label |-> OutputLabel(variant, N, grid_points, dt),
               data |-> [p \in Nodes(grid_points) |-> c[p].re]]
    /\ UNCHANGED <<variant, grid_points, dt, N, laplacian, c, df_dc,
                   pc, pos, steps, space, stamp>>

Next == initialize \/ step \/ get_c \/ output_c

Spec == Init /\ [][Next]_vars

-----------------------------------------------------------------------------
(* The chemical potential as a function of the field: calc_dfdc applied to  *)
(* fields drawn node by node from DfdcInputs.                               *)

DfdcInputs ==
    { Cx(C_ALPHA, RInt(0)), Cx(C_BETA, RInt(0)), Cx(Rat(1, 2), RInt(0)),
      Cx(Rat(53, 100), RInt(0)), Cx(C_ALPHA, Rat(1, 100)) }

InitDfdc ==
    \E points \in 1 .. 2 :
        /\ variant = "PFHub1aCustom"
        /\ grid_points = points
        /\ dt = RInt(0)
        /\ N = Coef(0, 0, 0, 0, 0, 0, 0, 0, 0, 0)
        /\ laplacian = LaplacianField(points)
        /\ c \in [Nodes(points) -> DfdcInputs]
        /\ df_dc = ZeroField(points)
        /\ pc = "ready"
        /\ pos = 1
        /\ steps = 0
        /\ space = [f \in Fields |-> 0]
        /\ stamp = [f \in Fields |-> -1]
        /\ out = NoOutput

NextDfdc == calc_dfdc

SpecDfdc == InitDfdc /\ [][NextDfdc]_vars

-----------------------------------------------------------------------------
(* Properties *)

\* no call of step has returned since the last initialize
AfterInitialize == pc = "ready" /\ stamp[0] = steps

\* statement s of step is the next to run
InStep(s) == pc \in {"ready", "step"} /\ StepOrder[Index] = s

RECURSIVE SumTo(_, _)
SumTo(g, m) == IF m = 0 THEN RInt(0) ELSE RAdd(SumTo(g, m - 1), g[m - 1])

\* the sum over the grid of the real component of a field
RealSum(f, points) ==
    SumTo([i \in 0 .. points - 1 |->
              SumTo([j \in 0 .. points - 1 |-> f[<<i, j>>].re], points)], points)

InitialField == initial_conditions(variant, grid_points, N)

\* the representative of k modulo points in the open interval
\* (-points/2, points/2), and 0 where 2 k = points
Fold(k, points) ==
    IF 2 * k = points THEN 0 ELSE IF 2 * k < points THEN k ELSE k - points

\* C1, as amended: after initialize, for every grid size and every index k,
\* the wavenumber is k - N above N/2, 0 where 2 k = N and k otherwise, and the
\* operator is built from these wavenumbers; index 1 folds to 1 and index
\* N - 1 to -1 when N >= 3, and index N/2 folds to 0 when N is even.
C1_Folding ==
    pc # "constructed" =>
        /\ \A i, j \in 0 .. grid_points - 1 :
              /\ Wavenumber(i, grid_points) = Fold(i, grid_points)
              /\ laplacian[<<i, j>>] =
                    Cx(Rat(-4 * PiSq * (Fold(i, grid_points) * Fold(i, grid_points)
                                        + Fold(j, grid_points) * Fold(j, grid_points)),
                           SIZE * SIZE), RInt(0))
        /\ grid_points >= 3 =>
              /\ Wavenumber(1, grid_points) = 1
              /\ Wavenumber(grid_points - 1, grid_points) = -1
        /\ grid_points % 2 = 0 => Wavenumber(grid_points \div 2, grid_points) = 0

C1_Witness ==
    /\ pc = "ready"
    /\ grid_points = 4
    /\ laplacian[<<2, 0>>] = CZero
    /\ laplacian[<<3, 0>>] = laplacian[<<1, 0>>]
    /\ laplacian[<<1, 0>>] # CZero

\* C1 as stated: for every grid size N >= 1, index 1 folds to 1, index N - 1
\* folds to -1 and the Nyquist index folds to 0.
C1_Original ==
    pc # "constructed" =>
        \A k \in 0 .. grid_points - 1 :
            /\ k > grid_points \div 2 => Wavenumber(k, grid_points) = k - grid_points
            /\ 2 * k = grid_points => Wavenumber(k, grid_points) = 0
            /\ (k <= grid_points \div 2 /\ 2 * k # grid_points) =>
                  Wavenumber(k, grid_points) = k
            /\ k = 1 => Wavenumber(k, grid_points) = 1
            /\ k = grid_points - 1 => Wavenumber(k, grid_points) = -1

\* the name followed by all ten coefficients
FullCustomName(n) ==
    <<"1", "a", "C", "u", "s", "t", "o", "m", "_">>
    \o Decimal(n.N1) \o <<"_">> \o Decimal(n.N2) \o <<"_">>
    \o Decimal(n.N3) \o <<"_">> \o Decimal(n.N4) \o <<"_">>
    \o Decimal(n.N5) \o <<"_">> \o Decimal(n.N6) \o <<"_">>
    \o Decimal(n.N7) \o <<"_">> \o Decimal(n.N8) \o <<"_">>
    \o Decimal(n.N9) \o <<"_">> \o Decimal(n.N10)

\* C2: the identity string of a custom instance holds all ten coefficients in
\* order, so the label output_c saves under differs from the label of every
\* custom instance of the same grid_points and dt with other coefficients.
C2_AllCoefficients ==
    (variant = "PFHub1aCustom" /\ out.op = "output_c") =>
        /\ subproblem_name(variant, N) = FullCustomName(N)
        /\ \A n2 \in CustomCoefs :
              n2 # N => OutputLabel(variant, n2, grid_points, dt) # out.label

ZeroCoef == Coef(0, 0, 0, 0, 0, 0, 0, 0, 0, 0)

\* C3, as amended: after initialize on a custom instance with all ten
\* coefficients 0, every node of c has real component 0.53 and imaginary
\* component 0.
C3_Uniform ==
    (variant = "PFHub1aCustom" /\ N = ZeroCoef /\ AfterInitialize) =>
        \A p \in Nodes(grid_points) : c[p] = Cx(Rat(53, 100), RInt(0))

C3_Witness ==
    /\ variant = "PFHub1aCustom" /\ N = ZeroCoef /\ AfterInitialize
    /\ grid_points = 3
    /\ c[<<2, 1>>] = Cx(Rat(53, 100), RInt(0))

\* C3 as stated: the uniform value is 0.54.
C3_Original ==
    (variant = "PFHub1aCustom" /\ N = ZeroCoef /\ AfterInitialize) =>
        \A p \in Nodes(grid_points) : c[p] = Cx(Rat(54, 100), RInt(0))

\* C4: after initialize, the fixed-preset variant's field is the custom
\* formula at the coefficients (3,4,8,6,1,5,2,1,0,0) it was constructed with:
\* at every node the six cosine arguments agree and the sines are 0.
C4_PresetIsCustom ==
    (variant = "PFHub1aCHiMaD2023" /\ AfterInitialize) =>
        /\ N = Coef(3, 4, 8, 6, 1, 5, 2, 1, 0, 0)
        /\ c = [p \in Nodes(grid_points) |-> CustomKernel(p[1], p[2], grid_points, N)]
        /\ \A p \in Nodes(grid_points) :
              LET x == RMul(cell_size(grid_points), RInt(p[1]))
                  y == RMul(cell_size(grid_points), RInt(p[2]))
                  a == CHiMaD2023Args(x, y)
                  b == CustomArgs(x, y, N)
              IN  /\ a.a1 = b.a1 /\ a.a2 = b.a2 /\ a.a3 = b.a3
                  /\ a.a4 = b.a4 /\ a.a5 = b.a5 /\ a.a6 = b.a6
                  /\ Sin(b.s1) = RInt(0) /\ Sin(b.s2) = RInt(0)

C4_Witness ==
    /\ variant = "PFHub1aCHiMaD2023" /\ AfterInitialize
    /\ grid_points = 4
    /\ c[<<1, 1>>] # c[<<0, 0>>]

\* C5, as amended: after initialize every laplacian(i,j) has real part <= 0
\* and imaginary part 0, and for every dt >= 0 the denominator of step has
\* real part >= 1 at every node.
C5_OperatorSign ==
    pc # "constructed" =>
        \A p \in Nodes(grid_points) :
            /\ RLeq(laplacian[p].re, RInt(0))
            /\ laplacian[p].im = RInt(0)
            /\ RLeq(RInt(0), dt) => RLeq(RInt(1), Denominator(dt, laplacian[p]).re)

C5_Witness ==
    /\ pc = "ready"
    /\ ~RLeq(dt, RInt(0))
    /\ \E p \in Nodes(grid_points) :
          /\ ~RLeq(RInt(0), laplacian[p].re)
          /\ ~RLeq(Denominator(dt, laplacian[p]).re, RInt(1))

\* C5 as stated: the denominator has real part >= 1 whatever dt is.
C5_Original ==
    pc # "constructed" =>
        \A p \in Nodes(grid_points) :
            /\ RLeq(laplacian[p].re, RInt(0))
            /\ laplacian[p].im = RInt(0)
            /\ RLeq(RInt(1), Denominator(dt, laplacian[p]).re)

\* C6: whenever step has returned, the sum (hence the average) of the real
\* component of c over the grid is the one initialize produced, and the
\* update leaves the zero-wavenumber mode as the forward transform made it.
C6_MassConserved ==
    /\ pc = "ready" =>
          RealSum(c, grid_points) = RealSum(InitialField, grid_points)
    /\ (pc = "step" /\ InStep("fft_inverse_c")) =>
          c[<<0, 0>>] = Cx(RealSum(InitialField, grid_points), RInt(0))

C6_Witness ==
    /\ pc = "ready"
    /\ steps >= 1
    /\ ~RLeq(dt, RInt(0))
    /\ c # InitialField

\* C7: with dt = 0 the update writes c_hat back unchanged, and every step
\* returns with c equal at every node to its value before the step.
C7_ZeroDt ==
    dt = RInt(0) =>
        /\ pc = "ready" => c = InitialField
        /\ (pc = "step" /\ InStep("fft_inverse_c")) =>
              c = fft_forward(InitialField, grid_points)

C7_Witness ==
    /\ dt = RInt(0)
    /\ pc = "ready"
    /\ steps >= 2
    /\ grid_points = 4
    /\ c[<<1, 0>>] # c[<<0, 0>>]

\* C8: calc_dfdc writes df_dc = 0 (both components) at every node where c is
\* C_ALPHA or C_BETA with imaginary part 0.
C8_Roots ==
    stamp[1] = steps =>
        \A p \in Nodes(grid_points) :
            c[p] \in {Cx(C_ALPHA, RInt(0)), Cx(C_BETA, RInt(0))} => df_dc[p] = CZero

C8_Witness ==
    /\ stamp[1] = steps
    /\ grid_points = 2
    /\ c[<<0, 0>>] = Cx(C_ALPHA, RInt(0)) /\ df_dc[<<0, 0>>] = CZero
    /\ c[<<0, 1>>] = Cx(C_BETA, RInt(0)) /\ df_dc[<<0, 1>>] = CZero
    /\ c[<<1, 0>>] = Cx(Rat(53, 100), RInt(0)) /\ df_dc[<<1, 0>>] # CZero

\* C9: c is in real space whenever step starts or has returned; calc_dfdc
\* reads a real-space c; c is transformed forward before df_dc is; the update
\* reads c and df_dc in frequency space, and the df_dc it reads was computed
\* in the same step; the inverse transform is applied to a frequency-space
\* c, and df_dc is left in frequency space.
C9_StepProtocol ==
    /\ pc = "ready" => space[0] = 0
    /\ InStep("calc_dfdc") => space[0] = 0
    /\ InStep("fft_forward_c") => space[0] = 0 /\ space[1] = 0 /\ stamp[1] = steps
    /\ InStep("fft_forward_df_dc") => space[0] = 1 /\ space[1] = 0 /\ stamp[1] = steps
    /\ InStep("timestep") => space[0] = 1 /\ space[1] = 1 /\ stamp[1] = steps
    /\ (pc = "step" /\ InStep("fft_inverse_c")) => space[0] = 1
    /\ (pc = "ready" /\ steps > 0 /\ stamp[1] >= 0) => space[1] = 1 /\ stamp[1] = steps - 1

C9_Witness ==
    /\ steps >= 1
    /\ pc = "step"
    /\ InStep("timestep")
    /\ grid_points = 4
    /\ df_dc # ZeroField(grid_points)

\* C10: once initialize has run, every laplacian(i,j) is the value the kernel
\* gives for (i, j, grid_points, SIZE), whatever has been called since.
C10_OperatorFrame ==
    pc # "constructed" => laplacian = LaplacianField(grid_points)

C10_Witness ==
    /\ pc = "ready"
    /\ steps >= 1
    /\ out.op = "output_c"
    /\ laplacian # ZeroField(grid_points)
    /\ c # InitialField

=============================================================================
